---- MODULE Spec2Model ----
(***************************************************************************)
(* A model of gold-service (src/main.go): one process that polls the BRS   *)
(* API for the 18k gold price, caches it in a SQLite table, and serves the *)
(* cached row over HTTP.                                                   *)
(*                                                                         *)
(* Goroutines: main (startup, ListenAndServe, deferred calls), the poller  *)
(* (select on ticker.C / ctx.Done()), the shutdown goroutine (signal,      *)
(* ticker.Stop, cancel, server.Shutdown) and one goroutine per request.    *)
(* fetchAndCache runs on its caller's goroutine: "main" for the initial    *)
(* fetch and "poller" for a tick.                                          *)
(*                                                                         *)
(* Time is counted in units of 1/SubPerSec second, so that RFC3339         *)
(* formatting (whole seconds) is not the identity.  Upstream prices are    *)
(* float64 in the code; here they are counted in hundredths of a Toman.    *)
(***************************************************************************)
EXTENDS Integers, Sequences, FiniteSets, TLC

\* ------------------------------------------------------------------ bounds
\* the clock takes the values 0 and staleThreshold + f, f <= MaxFrac
MaxFrac == 1
\* concurrent request goroutines
NumReaders == 1
\* clock units per second (the sub-second part RFC3339 formatting drops)
SubPerSec == 2

\* -------------------------------------------------------- program constants
\* staleThreshold = 5 * time.Minute
staleThreshold == 5 * 60 * SubPerSec
\* price units per Toman of the modelled float64 prices
PriceScale == 10 * 10
\* "Convert Toman to Rial (x10)"
TomanToRial == 10

Symbol18k == "IR_GOLD_18K"
RowKey == "gold_18k"
\* stands for the fallback display name of line 219
DefaultName == "tala-18-ayar"
NoCachedPrice == "no cached price available"

Callers == {"main", "poller"}
Readers == 1..NumReaders
Instants == {0} \cup {staleThreshold + f : f \in 0..MaxFrac}

\* ------------------------------------------------------------ pure helpers
\* int64(x) of a float64: truncation toward zero, n / d for d > 0
TruncDiv(n, d) == IF n >= 0 THEN n \div d ELSE -((-n) \div d)

\* the conversion without the factor of line 216: int64(gold18k.Price)
ToRialNoScale(p) == TruncDiv(p, PriceScale)

\* int64(gold18k.Price * 10), the price given in 1/PriceScale Toman
ToRial(p) == TruncDiv(p * TomanToRial, PriceScale)

\* time.Now().UTC().Format(time.RFC3339): the text names a whole second
FormatRFC3339(t) == t \div SubPerSec

\* time.Parse(time.RFC3339, s): the instant at the start of that second
ParseRFC3339(s) == s * SubPerSec

\* name := gold18k.Name; if name == "" { name = fallback }
DisplayName(n) == IF n = "" THEN DefaultName ELSE n

\* the loop of lines 204-209: index of the first IR_GOLD_18K item, 0 if none
RECURSIVE FindFrom(_, _)
FindFrom(gold, i) ==
  IF i > Len(gold) THEN 0
  ELSE IF gold[i].symbol = Symbol18k THEN i
  ELSE FindFrom(gold, i + 1)

FindGold18k(gold) == FindFrom(gold, 1)

\* line 211: gold18k == nil || gold18k.Price == 0
Rejected(gold) ==
  \/ FindGold18k(gold) = 0
  \/ gold[FindGold18k(gold)].price = 0

\* an insert that leaves an existing row alone (ON CONFLICT DO NOTHING)
UpsertKeepsOld(rows, key, name, price, at) ==
  IF \E r \in rows : r.symbol = key
    THEN rows
    ELSE rows \cup {[symbol |-> key, name |-> name, price_rial |-> price,
                     fetched_at |-> at]}

\* an upsert whose DO UPDATE leaves out name = excluded.name
UpsertKeepsName(rows, key, name, price, at) ==
  IF \E r \in rows : r.symbol = key
    THEN {r \in rows : r.symbol # key}
           \cup {[symbol |-> key, name |-> r.name, price_rial |-> price,
                   fetched_at |-> at] : r \in {q \in rows : q.symbol = key}}
    ELSE rows \cup {[symbol |-> key, name |-> name, price_rial |-> price,
                     fetched_at |-> at]}

\* INSERT ... ON CONFLICT(symbol) DO UPDATE SET name, price_rial, fetched_at
Upsert(rows, key, name, price, at) ==
  {r \in rows : r.symbol # key}
    \cup {[symbol |-> key, name |-> name, price_rial |-> price, fetched_at |-> at]}

\* SELECT name, price_rial, fetched_at FROM gold_prices WHERE symbol = ?
QueryRow(rows, key) == {r \in rows : r.symbol = key}

\* ------------------------------------------------------- upstream responses
Item(s, n, p) == [symbol |-> s, name |-> n, price |-> p]

GoldLists ==
  { <<>>,
    << Item("IR_COIN", "coin", 700) >>,
    << Item(Symbol18k, "G18", 0) >>,
    << Item("IR_COIN", "coin", 700), Item(Symbol18k, "G18", 105) >>,
    << Item(Symbol18k, "G18", 105), Item(Symbol18k, "dup", 300) >>,
    << Item(Symbol18k, "", -100) >>,
    << Item(Symbol18k, "", 5) >> }

\* what client.Do and the decoding can produce
FetchErrors == {"transport", "status", "decode"}

\* ------------------------------------------------------------------- state
VARIABLES
  asynctimerchan, \* the build's timer channels: TRUE buffered (go < 1.23), FALSE synchronous
  running,        \* the process has not exited
  clock,          \* wall clock, in 1/SubPerSec seconds
  mainPc,         \* position of func main
  pollerPc,       \* position of the poller goroutine (lines 93-104)
  sdPc,           \* position of the shutdown goroutine (lines 119-129)
  fpc,            \* per caller: position inside fetchAndCache
  gold18k,        \* per caller: the item gold18k points to
  fnow,           \* per caller: now of line 221
  ferr,           \* per caller: what fetchAndCache returns
  pollMu,         \* sync.Mutex: TRUE when locked
  dbState,        \* the *sql.DB handle: "nil", "open", "closed"
  tableExists,    \* gold_prices exists in the database file
  gold_prices,    \* the rows of the table (the file outlives the process)
  tickerState,    \* "none", "running", "stopped"
  tickerC,        \* the tick waiting in ticker.C: "none", or when it fired:
                  \* "idle" (the poller waited in select) or "busy"
  tickTaken,      \* history: the tick the poller's current fetch was started by
  ctxDone,        \* ctx of line 90 is cancelled
  sigCh,          \* a signal waits in sigCh
  inShutdown,     \* server.Shutdown has been called
  rpc,            \* per request goroutine: "idle", "handling"
  resp,           \* history: the response written last
  rinfo,          \* history: whether no write followed that response, and
                  \* what the response before it showed
  lastSuccess,    \* history: the row of the last cycle that returned nil after Exec
  hresp           \* history: the response handleHealth wrote last

vars ==
  << asynctimerchan, running, clock, mainPc, pollerPc, sdPc, fpc, gold18k, fnow, ferr,
     pollMu, dbState, tableExists, gold_prices, tickerState, tickerC, ctxDone,
     sigCh, inShutdown, rpc, resp, rinfo, tickTaken, lastSuccess, hresp >>

fetchVars == << fpc, gold18k, fnow, ferr, pollMu >>
storeVars == << dbState, tableExists, gold_prices, lastSuccess >>
tickerVars == << tickerState, tickerC, tickTaken >>
readVars == << rpc, resp, rinfo, hresp >>

NoItem == Item("", "", 0)
NoResp == [status |-> 0]
NoInfo == [current |-> FALSE, before |-> "none"]

\* a row an earlier run of the service left in the file
EarlierRow ==
  [symbol |-> RowKey, name |-> "G18", price_rial |-> ToRial(105), fetched_at |-> 0]

\* no goroutine takes a step after the process has exited
Alive == running

Init ==
  /\ asynctimerchan \in BOOLEAN
  /\ running = TRUE
  /\ clock = 0
  /\ mainPc = "open"
  /\ pollerPc = "none"
  /\ sdPc = "none"
  /\ fpc = [c \in Callers |-> "idle"]
  /\ gold18k = [c \in Callers |-> NoItem]
  /\ fnow = [c \in Callers |-> 0]
  /\ ferr = [c \in Callers |-> "none"]
  /\ pollMu = FALSE
  /\ dbState = "nil"
  /\ \/ tableExists = FALSE /\ gold_prices = {}
     \/ tableExists = TRUE /\ gold_prices \in {{}, {EarlierRow}}
  /\ tickerState = "none"
  /\ tickerC = "none"
  /\ tickTaken = "none"
  /\ ctxDone = FALSE
  /\ sigCh = FALSE
  /\ inShutdown = FALSE
  /\ rpc = [r \in Readers |-> "idle"]
  /\ resp = NoResp
  /\ rinfo = NoInfo
  /\ lastSuccess = gold_prices
  /\ hresp = NoResp

\* ------------------------------------------------------------ fetchAndCache
\* lines 173-177: the overlap guard; on success the request of line 187 is sent
TryLock(c) ==
  /\ Alive
  /\ fpc[c] = "call"
  /\ IF pollMu
       THEN /\ fpc' = [fpc EXCEPT ![c] = "ret"]
            /\ ferr' = [ferr EXCEPT ![c] = "skipped"]
            /\ UNCHANGED pollMu
       ELSE /\ pollMu' = TRUE
            /\ fpc' = [fpc EXCEPT ![c] = "http"]
            /\ UNCHANGED ferr
  /\ UNCHANGED << asynctimerchan, running, clock, mainPc, pollerPc, sdPc, gold18k, fnow,
                  storeVars, tickerVars,
                  ctxDone, sigCh, inShutdown, readVars >>

\* lines 187-200: client.Do fails, the status is not 200, or the body does not decode
FetchFails(c) ==
  /\ Alive
  /\ fpc[c] = "http"
  /\ \E e \in FetchErrors : ferr' = [ferr EXCEPT ![c] = e]
  /\ fpc' = [fpc EXCEPT ![c] = "ret"]
  /\ UNCHANGED << asynctimerchan, running, clock, mainPc, pollerPc, sdPc, gold18k, fnow,
                  pollMu, storeVars, tickerVars, ctxDone, sigCh,
                  inShutdown, readVars >>

\* lines 197-221: a decoded body; find the item, validate, take the time
FetchDecoded(c) ==
  /\ Alive
  /\ fpc[c] = "http"
  /\ \E gold \in GoldLists :
       IF Rejected(gold)
         THEN /\ ferr' = [ferr EXCEPT ![c] = "not found"]
              /\ fpc' = [fpc EXCEPT ![c] = "ret"]
              /\ UNCHANGED << gold18k, fnow >>
         ELSE /\ gold18k' = [gold18k EXCEPT ![c] = gold[FindGold18k(gold)]]
              /\ fnow' = [fnow EXCEPT ![c] = FormatRFC3339(clock)]
              /\ fpc' = [fpc EXCEPT ![c] = "upsert"]
              /\ UNCHANGED ferr
  /\ UNCHANGED << asynctimerchan, running, clock, mainPc, pollerPc, sdPc, pollMu,
                  storeVars, tickerVars, ctxDone, sigCh,
                  inShutdown, readVars >>

\* lines 216-235: convert, substitute the name, database.Exec of the upsert;
\* Exec fails on a closed handle and may fail on a storage error
ExecUpsert(c) ==
  /\ Alive
  /\ fpc[c] = "upsert"
  /\ \E storeOk \in BOOLEAN :
       IF storeOk /\ dbState = "open"
         THEN /\ gold_prices' = Upsert(gold_prices, RowKey,
                                       DisplayName(gold18k[c].name),
                                       ToRial(gold18k[c].price), fnow[c])
              /\ lastSuccess' = {[symbol |-> RowKey,
                                  name |-> DisplayName(gold18k[c].name),
                                  price_rial |-> ToRial(gold18k[c].price),
                                  fetched_at |-> fnow[c]]}
              /\ rinfo' = [rinfo EXCEPT !.current = FALSE]
              /\ ferr' = [ferr EXCEPT ![c] = "nil"]
         ELSE /\ ferr' = [ferr EXCEPT ![c] = "upsert"]
              /\ UNCHANGED << gold_prices, lastSuccess, rinfo >>
  /\ fpc' = [fpc EXCEPT ![c] = "ret"]
  /\ UNCHANGED << asynctimerchan, running, clock, mainPc, pollerPc, sdPc, gold18k,
                  fnow, pollMu, dbState, tableExists, tickerVars,
                  ctxDone, sigCh, inShutdown, rpc, resp, hresp >>

\* fetchAndCache without the deferred Unlock
NeverUnlocked(c) == pollMu

\* fetchAndCache with pollMu.Unlock() as its last statement instead of a defer:
\* the error returns leave it locked
UnlockedOnSuccess(c) == IF ferr[c] = "nil" THEN FALSE ELSE pollMu

\* the state fetchAndCache leaves behind when it returns: the deferred Unlock
\* of line 177 runs only if TryLock succeeded
Unlocked(c) == IF ferr[c] = "skipped" THEN pollMu ELSE FALSE

\* a poller that gives up after a cycle that returned an error
ReturnStopsOnError(c) ==
  /\ Alive
  /\ fpc[c] = "ret"
  /\ pollMu' = Unlocked(c)
  /\ fpc' = [fpc EXCEPT ![c] = "idle"]
  /\ gold18k' = [gold18k EXCEPT ![c] = NoItem]
  /\ fnow' = [fnow EXCEPT ![c] = 0]
  /\ ferr' = [ferr EXCEPT ![c] = "none"]
  /\ IF c = "main"
       THEN mainPc = "fetching" /\ mainPc' = "newTicker" /\ UNCHANGED pollerPc
       ELSE /\ pollerPc = "fetch"
            /\ pollerPc' = IF ferr[c] = "nil" THEN "select" ELSE "returned"
            /\ UNCHANGED mainPc
  /\ UNCHANGED << asynctimerchan, running, clock, sdPc, storeVars, tickerVars, ctxDone, sigCh, inShutdown, readVars >>

\* fetchAndCache returns to its caller, which logs the error and goes on:
\* main to line 89, the poller back to its select
Return(c) ==
  /\ Alive
  /\ fpc[c] = "ret"
  /\ pollMu' = Unlocked(c)
  /\ fpc' = [fpc EXCEPT ![c] = "idle"]
  /\ gold18k' = [gold18k EXCEPT ![c] = NoItem]
  /\ fnow' = [fnow EXCEPT ![c] = 0]
  /\ ferr' = [ferr EXCEPT ![c] = "none"]
  /\ IF c = "main"
       THEN mainPc = "fetching" /\ mainPc' = "newTicker" /\ UNCHANGED pollerPc
       ELSE pollerPc = "fetch" /\ pollerPc' = "select" /\ UNCHANGED mainPc
  /\ UNCHANGED << asynctimerchan, running, clock, sdPc, storeVars, tickerVars, ctxDone, sigCh, inShutdown, readVars >>

\* ------------------------------------------------------------------- main
mainFrame ==
  << asynctimerchan, clock, fetchVars, tableExists, gold_prices, lastSuccess,
     tickerC, tickTaken, sigCh, inShutdown, readVars >>

\* lines 60-63: sql.Open; log.Fatalf on error
MainOpen ==
  /\ Alive
  /\ mainPc = "open"
  /\ \E ok \in BOOLEAN :
       IF ok THEN dbState' = "open" /\ mainPc' = "createTable" /\ UNCHANGED running
             ELSE running' = FALSE /\ UNCHANGED << dbState, mainPc >>
  /\ UNCHANGED << mainFrame, pollerPc, sdPc, tickerState, ctxDone >>

\* lines 67-80: CREATE TABLE IF NOT EXISTS; log.Fatalf on error
MainCreateTable ==
  /\ Alive
  /\ mainPc = "createTable"
  /\ \E ok \in BOOLEAN :
       IF ok THEN tableExists' = TRUE /\ mainPc' = "initialFetch" /\ UNCHANGED running
             ELSE running' = FALSE /\ UNCHANGED << tableExists, mainPc >>
  /\ UNCHANGED << asynctimerchan, clock, fpc, gold18k, fnow, ferr, pollMu,
                  dbState, gold_prices, lastSuccess, tickerVars, sigCh, inShutdown, readVars,
                  pollerPc, sdPc, ctxDone >>

\* the initial fetch started with a go statement: main does not wait for it
MainInitialFetchAsync ==
  /\ Alive
  /\ mainPc = "initialFetch"
  /\ mainPc' = "newTicker"
  /\ fpc' = [fpc EXCEPT !["main"] = "call"]
  /\ UNCHANGED << asynctimerchan, running, clock, pollerPc, sdPc, gold18k, fnow,
                  ferr, pollMu, storeVars, tickerVars, ctxDone,
                  sigCh, inShutdown, readVars >>

\* line 84: the synchronous call fetchAndCache(apiKey)
MainInitialFetch ==
  /\ Alive
  /\ mainPc = "initialFetch"
  /\ mainPc' = "fetching"
  /\ fpc' = [fpc EXCEPT !["main"] = "call"]
  /\ UNCHANGED << asynctimerchan, running, clock, pollerPc, sdPc, gold18k, fnow,
                  ferr, pollMu, storeVars, tickerVars, ctxDone,
                  sigCh, inShutdown, readVars >>

\* lines 89-104: NewTicker, WithCancel, go poller
MainStartPoller ==
  /\ Alive
  /\ mainPc = "newTicker"
  /\ tickerState' = "running"
  /\ pollerPc' = "select"
  /\ mainPc' = "goShutdown"
  /\ UNCHANGED << mainFrame, running, sdPc, dbState, ctxDone >>

\* lines 107-129: build the server, go shutdown goroutine
MainGoShutdown ==
  /\ Alive
  /\ mainPc = "goShutdown"
  /\ sdPc' = "notify"
  /\ mainPc' = "listenAndServe"
  /\ UNCHANGED << mainFrame, running, pollerPc, dbState, tickerState, ctxDone >>

\* line 132: ListenAndServe binds and serves; it returns ErrServerClosed at once
\* if Shutdown was already called, and any other error is fatal
MainListen ==
  /\ Alive
  /\ mainPc = "listenAndServe"
  /\ IF inShutdown
       THEN mainPc' = "deferCancel" /\ UNCHANGED running
       ELSE \E bound \in BOOLEAN :
              IF bound THEN mainPc' = "serving" /\ UNCHANGED running
                       ELSE running' = FALSE /\ UNCHANGED mainPc
  /\ UNCHANGED << mainFrame, pollerPc, sdPc, dbState, tickerState, ctxDone >>

\* a main that waits for the poller goroutine before it returns
MainServeWaitsPoller ==
  /\ Alive
  /\ mainPc = "serving"
  /\ inShutdown
  /\ pollerPc = "returned"
  /\ mainPc' = "deferCancel"
  /\ UNCHANGED << mainFrame, running, pollerPc, sdPc, dbState, tickerState, ctxDone >>

\* line 132: Serve returns ErrServerClosed as soon as Shutdown is called
MainServeReturns ==
  /\ Alive
  /\ mainPc = "serving"
  /\ inShutdown
  /\ mainPc' = "deferCancel"
  /\ UNCHANGED << mainFrame, running, pollerPc, sdPc, dbState, tickerState, ctxDone >>

\* line 91: defer cancel()
MainDeferCancel ==
  /\ Alive
  /\ mainPc = "deferCancel"
  /\ ctxDone' = TRUE
  /\ mainPc' = "deferClose"
  /\ UNCHANGED << mainFrame, running, pollerPc, sdPc, dbState, tickerState >>

\* line 64: defer database.Close()
MainDeferClose ==
  /\ Alive
  /\ mainPc = "deferClose"
  /\ dbState' = "closed"
  /\ mainPc' = "return"
  /\ UNCHANGED << mainFrame, running, pollerPc, sdPc, tickerState, ctxDone >>

\* line 135: main returns and the process exits, whatever the other goroutines do
MainReturn ==
  /\ Alive
  /\ mainPc = "return"
  /\ running' = FALSE
  /\ UNCHANGED << mainFrame, mainPc, pollerPc, sdPc, dbState, tickerState, ctxDone >>

\* ----------------------------------------------------------------- poller
\* line 96-97: case <-ticker.C: the tick is taken; the call of fetchAndCache
\* follows, its first statement being TryLock
PollerTick ==
  /\ Alive
  /\ pollerPc = "select"
  /\ tickerC # "none"
  /\ tickTaken' = tickerC
  /\ tickerC' = "none"
  /\ pollerPc' = "fetch"
  /\ fpc' = [fpc EXCEPT !["poller"] = "call"]
  /\ UNCHANGED << asynctimerchan, running, clock, mainPc, sdPc, gold18k, fnow,
                  ferr, pollMu, storeVars, tickerState, ctxDone, sigCh,
                  inShutdown, readVars >>

\* line 100-101: case <-ctx.Done(): return.  With both cases ready select
\* takes either one.
PollerCtxDone ==
  /\ Alive
  /\ pollerPc = "select"
  /\ ctxDone
  /\ pollerPc' = "returned"
  /\ UNCHANGED << asynctimerchan, running, clock, mainPc, sdPc, fetchVars,
                  storeVars, tickerVars, ctxDone, sigCh,
                  inShutdown, readVars >>

\* the runtime's ticker: a tick is placed in ticker.C, or dropped if one waits
TickerFires ==
  /\ Alive
  /\ tickerState = "running"
  /\ tickerC' = IF tickerC # "none" THEN tickerC
                ELSE IF pollerPc = "select" THEN "idle" ELSE "busy"
  /\ UNCHANGED << asynctimerchan, running, clock, mainPc, pollerPc, sdPc,
                  fetchVars, storeVars, tickerState, tickTaken, ctxDone, sigCh,
                  inShutdown, readVars >>

\* ---------------------------------------------------------------- shutdown
sdFrame ==
  << asynctimerchan, running, clock, mainPc, pollerPc, fetchVars, storeVars,
     tickTaken, readVars >>

\* lines 120-121: make(chan os.Signal, 1); signal.Notify
SdNotify ==
  /\ Alive
  /\ sdPc = "notify"
  /\ sdPc' = "waitSig"
  /\ UNCHANGED << sdFrame, tickerState, tickerC, ctxDone, sigCh, inShutdown >>

\* SIGINT or SIGTERM arrives: before Notify has run the default disposition
\* ends the process; while line 122 waits it is delivered to sigCh.  A later
\* signal stays in sigCh, which nothing reads again.
Signal ==
  /\ Alive
  /\ sdPc \in {"none", "notify", "waitSig"}
  /\ IF sdPc = "waitSig"
       THEN sigCh' = TRUE /\ UNCHANGED running
       ELSE running' = FALSE /\ UNCHANGED sigCh
  /\ UNCHANGED << asynctimerchan, clock, mainPc, pollerPc, sdPc, fetchVars,
                  storeVars, tickerVars, ctxDone, inShutdown,
                  readVars >>

\* line 122: <-sigCh
SdReceive ==
  /\ Alive
  /\ sdPc = "waitSig"
  /\ sigCh
  /\ sigCh' = FALSE
  /\ sdPc' = "tickerStop"
  /\ UNCHANGED << sdFrame, tickerState, tickerC, ctxDone, inShutdown >>

\* line 124: ticker.Stop().  A tick already in a buffered channel stays there;
\* a synchronous timer channel delivers nothing after Stop.
SdTickerStop ==
  /\ Alive
  /\ sdPc = "tickerStop"
  /\ tickerState' = "stopped"
  /\ tickerC' = IF asynctimerchan THEN tickerC ELSE "none"
  /\ sdPc' = "cancel"
  /\ UNCHANGED << sdFrame, ctxDone, sigCh, inShutdown >>

\* line 125: cancel()
SdCancel ==
  /\ Alive
  /\ sdPc = "cancel"
  /\ ctxDone' = TRUE
  /\ sdPc' = "shutdown"
  /\ UNCHANGED << sdFrame, tickerState, tickerC, sigCh, inShutdown >>

\* line 128: server.Shutdown closes the listener and starts waiting
SdShutdown ==
  /\ Alive
  /\ sdPc = "shutdown"
  /\ inShutdown' = TRUE
  /\ sdPc' = "draining"
  /\ UNCHANGED << sdFrame, tickerState, tickerC, ctxDone, sigCh >>

\* line 128: server.Shutdown returns when no request is in flight or when the
\* 5 s of shutdownCtx have passed
SdShutdownReturns ==
  /\ Alive
  /\ sdPc = "draining"
  /\ \E expired \in BOOLEAN : expired \/ \A r \in Readers : rpc[r] = "idle"
  /\ sdPc' = "done"
  /\ UNCHANGED << sdFrame, tickerState, tickerC, ctxDone, sigCh, inShutdown >>

\* ------------------------------------------------------------------ reads
\* the handler without the check of Scan's error: the zero values are served
handleGold18kNoErrCheck(rows, storeOk, now) ==
  IF ~storeOk \/ QueryRow(rows, RowKey) = {}
    THEN [status |-> 200, name |-> "", price |-> 0, fetchedAt |-> 0,
          stale |-> TRUE]
    ELSE LET row == CHOOSE r \in QueryRow(rows, RowKey) : TRUE
         IN  [status |-> 200, name |-> row.name, price |-> row.price_rial,
              fetchedAt |-> row.fetched_at,
              stale |-> (now - ParseRFC3339(row.fetched_at)) > staleThreshold]

\* the handler with stale computed by >= instead of >
handleGold18kGeq(rows, storeOk, now) ==
  IF ~storeOk \/ QueryRow(rows, RowKey) = {}
    THEN [status |-> 503, error |-> NoCachedPrice]
    ELSE LET row == CHOOSE r \in QueryRow(rows, RowKey) : TRUE
         IN  [status |-> 200, name |-> row.name, price |-> row.price_rial,
              fetchedAt |-> row.fetched_at,
              stale |-> (now - ParseRFC3339(row.fetched_at)) >= staleThreshold]

\* lines 137-164: SELECT the row; a Scan error gives 503, otherwise the row
\* with stale computed from the time of the read
handleGold18k(rows, storeOk, now) ==
  IF ~storeOk \/ QueryRow(rows, RowKey) = {}
    THEN [status |-> 503, error |-> NoCachedPrice]
    ELSE LET row == CHOOSE r \in QueryRow(rows, RowKey) : TRUE
         IN  [status |-> 200, name |-> row.name, price |-> row.price_rial,
              fetchedAt |-> row.fetched_at,
              stale |-> (now - ParseRFC3339(row.fetched_at)) > staleThreshold]

\* the listener accepts a GET /api/gold/18k and starts its goroutine
Accept(r) ==
  /\ Alive
  /\ mainPc = "serving"
  /\ ~inShutdown
  /\ rpc[r] = "idle"
  /\ rpc' = [rpc EXCEPT ![r] = "handling"]
  /\ UNCHANGED << asynctimerchan, running, clock, mainPc, pollerPc, sdPc,
                  fetchVars, storeVars, tickerVars, ctxDone,
                  sigCh, inShutdown, resp, rinfo, hresp >>

\* a read-through handler: on a miss it fetches and caches before it answers
HandleReadThrough(r) ==
  /\ Alive
  /\ rpc[r] = "handling"
  /\ gold_prices' = IF QueryRow(gold_prices, RowKey) = {}
                      THEN Upsert(gold_prices, RowKey, DefaultName, ToRial(105),
                                  FormatRFC3339(clock))
                      ELSE gold_prices
  /\ lastSuccess' = gold_prices'
  /\ resp' = handleGold18k(gold_prices', dbState = "open", clock)
  /\ rinfo' = [current |-> TRUE, before |-> "none"]
  /\ rpc' = [rpc EXCEPT ![r] = "idle"]
  /\ UNCHANGED << asynctimerchan, running, clock, mainPc, pollerPc, sdPc,
                  fetchVars, dbState, tableExists, tickerVars, ctxDone, sigCh,
                  inShutdown, hresp >>

\* the handler runs: the query fails on a closed handle and may fail on a
\* storage error
Handle(r) ==
  /\ Alive
  /\ rpc[r] = "handling"
  /\ \E storeOk \in BOOLEAN :
       resp' = handleGold18k(gold_prices, storeOk /\ dbState = "open", clock)
  /\ rinfo' = [current |-> TRUE,
               before |-> IF resp.status = 200 /\ rinfo.current
                            THEN IF resp.stale THEN "stale" ELSE "fresh"
                            ELSE "none"]
  /\ rpc' = [rpc EXCEPT ![r] = "idle"]
  /\ UNCHANGED << asynctimerchan, running, clock, mainPc, pollerPc, sdPc,
                  fetchVars, storeVars, tickerVars, ctxDone, sigCh, inShutdown,
                  hresp >>

\* ----------------------------------------------------------------- health
StatusOk == "ok"

\* a health handler that reports whether a price is cached
handleHealthCached ==
  IF QueryRow(gold_prices, RowKey) = {}
    THEN [status |-> 503, body |-> "empty"]
    ELSE [status |-> 200, body |-> StatusOk]

\* lines 166-169: the header and the fixed body; w.Write sends status 200
handleHealth == [status |-> 200, body |-> StatusOk]

\* line 109 and lines 166-169: the listener accepts a GET /health and
\* handleHealth answers it; the handler has no statement that can wait
ServeHealth ==
  /\ Alive
  /\ mainPc = "serving"
  /\ ~inShutdown
  /\ hresp' = handleHealth
  /\ UNCHANGED << asynctimerchan, running, clock, mainPc, pollerPc, sdPc,
                  fetchVars, storeVars, tickerVars, ctxDone, sigCh, inShutdown,
                  rpc, resp, rinfo >>

\* ------------------------------------------------------------------ clock
AdvanceClock ==
  /\ Alive
  /\ \E t \in Instants : t > clock /\ clock' = t
  /\ UNCHANGED << asynctimerchan, running, mainPc, pollerPc, sdPc, fetchVars,
                  storeVars, tickerVars, ctxDone, sigCh,
                  inShutdown, readVars >>

\* ------------------------------------------------------------ specification
Next ==
  \/ \E c \in Callers : TryLock(c)
  \/ \E c \in Callers : FetchFails(c)
  \/ \E c \in Callers : FetchDecoded(c)
  \/ \E c \in Callers : ExecUpsert(c)
  \/ \E c \in Callers : Return(c)
  \/ MainOpen
  \/ MainCreateTable
  \/ MainInitialFetch
  \/ MainStartPoller
  \/ MainGoShutdown
  \/ MainListen
  \/ MainServeReturns
  \/ MainDeferCancel
  \/ MainDeferClose
  \/ MainReturn
  \/ PollerTick
  \/ PollerCtxDone
  \/ TickerFires
  \/ SdNotify
  \/ Signal
  \/ SdReceive
  \/ SdTickerStop
  \/ SdCancel
  \/ SdShutdown
  \/ SdShutdownReturns
  \/ \E r \in Readers : Accept(r)
  \/ \E r \in Readers : Handle(r)
  \/ ServeHealth
  \/ AdvanceClock

Spec == Init /\ [][Next]_vars

\* ----------------------------------------------------------------- progress
\* the steps of func main
MainSteps ==
  \/ MainOpen
  \/ MainCreateTable
  \/ MainInitialFetch
  \/ MainStartPoller
  \/ MainGoShutdown
  \/ MainListen
  \/ MainServeReturns
  \/ MainDeferCancel
  \/ MainDeferClose
  \/ MainReturn

\* the steps of the shutdown goroutine once a signal waits in sigCh
SdSteps ==
  \/ SdReceive
  \/ SdTickerStop
  \/ SdCancel
  \/ SdShutdown
  \/ SdShutdownReturns

\* the steps of the goroutines; the wall clock stands still and /health is not
\* asked, neither of which a fetch cycle or the shutdown depends on
CoreNext ==
  \/ \E c \in Callers : TryLock(c)
  \/ \E c \in Callers : FetchFails(c)
  \/ \E c \in Callers : FetchDecoded(c)
  \/ \E c \in Callers : ExecUpsert(c)
  \/ \E c \in Callers : Return(c)
  \/ MainSteps
  \/ PollerTick
  \/ PollerCtxDone
  \/ TickerFires
  \/ SdNotify
  \/ Signal
  \/ SdSteps
  \/ \E r \in Readers : Accept(r)
  \/ \E r \in Readers : Handle(r)

\* the upstream answers with an accepted item; the Exec of the upsert succeeds
FetchAccepted(c) == FetchDecoded(c) /\ fpc'[c] = "upsert"
UpsertCommits(c) == ExecUpsert(c) /\ ferr'[c] = "nil"

\* goroutines that can run do run; the request of line 187 ends (the client
\* has a timeout); the runtime's ticker keeps firing; and, for as long as the
\* poller keeps asking, the upstream at some time answers with an accepted
\* item and the store at some time accepts the write
LiveFairness ==
  /\ WF_vars(MainSteps)
  /\ \A c \in Callers :
       /\ WF_vars(TryLock(c))
       /\ WF_vars(FetchFails(c) \/ FetchDecoded(c))
       /\ WF_vars(ExecUpsert(c))
       /\ WF_vars(Return(c))
  /\ WF_vars(TickerFires)
  /\ WF_vars(PollerTick)
  /\ SF_vars(FetchAccepted("poller"))
  /\ SF_vars(UpsertCommits("poller"))

LiveSpec == Init /\ [][CoreNext]_vars /\ LiveFairness

\* main and the shutdown goroutine run when they can; nothing is assumed of
\* the poller, of a fetch cycle or of the request handlers
ExitFairness == WF_vars(MainSteps) /\ WF_vars(SdSteps)

ExitSpec == Init /\ [][CoreNext]_vars /\ ExitFairness

\* -------------------------------------------------------------- properties
\* fetch cycles between a successful TryLock and the deferred Unlock
InFlight ==
  {c \in Callers : fpc[c] \in {"http", "upsert"}
                     \/ (fpc[c] = "ret" /\ ferr[c] # "skipped")}

FetchFailures == FetchErrors \cup {"not found", "upsert"}

\* C1: after any sequence of fetch cycles the table holds exactly the row
\* (name, converted price, timestamp) of the last cycle that succeeded, and
\* what it held before the sequence if none did.
C1_LastSuccessKept == gold_prices = lastSuccess

\* a cycle has failed after a cycle of this run succeeded, and the row of the
\* successful one is still there
C1_Witness ==
  /\ \E c \in Callers : fpc[c] = "ret" /\ ferr[c] \in FetchFailures
  /\ \E r \in gold_prices : r.name = DefaultName
  /\ gold_prices = lastSuccess

\* C2: a cycle whose response lacks IR_GOLD_18K, or whose IR_GOLD_18K price is
\* zero or negative, returns an error and never reaches the upsert.
C2_NonPositiveRejected ==
  \A c \in Callers : fpc[c] = "upsert" => gold18k[c].price > 0

\* C3: a tick that fires while a fetch is in progress is skipped entirely: it
\* starts no fetch then and none later, so every fetch of the poller is started
\* by a tick that fired while the poller was idle.
C3_BusyTickSkipped == tickTaken # "busy"

\* C4: at most one fetch+write cycle is in flight, and pollMu is held exactly
\* while one is.
C4_OneInFlight ==
  /\ Cardinality(InFlight) <= 1
  /\ pollMu <=> InFlight # {}

\* a tick waits in ticker.C while the poller's cycle is in flight
C4_Witness ==
  /\ fpc["poller"] = "upsert"
  /\ tickerC = "busy"
  /\ pollMu

\* C5: once ticker.Stop() and cancel() of the shutdown goroutine have run, the
\* poller starts no fetchAndCache.
C5_NoFetchAfterStop ==
  [][(tickerState = "stopped" /\ ctxDone)
       => ~(fpc["poller"] = "call" /\ fpc'["poller"] # "call")]_vars

\* C6: shutdown is ordered: ticker stopped, then poller cancelled, then the
\* listener closed and the requests in flight drained (or the grace period
\* over), and only then the store closed; nothing is left to run on the closed
\* store.
C6_ShutdownOrder ==
  /\ ctxDone => tickerState = "stopped"
  /\ inShutdown => ctxDone
  /\ dbState = "closed" =>
       /\ sdPc = "done"
       /\ \A r \in Readers : rpc[r] = "idle"
       /\ \A c \in Callers : fpc[c] # "upsert"

\* main has not yet finished the initial fetch attempt
BeforeInitialFetchDone ==
  mainPc \in {"open", "createTable", "initialFetch", "fetching"}

\* C7: startup is ordered: the initial fetch is attempted only on an open store
\* with its table; the poller exists only after the initial attempt has
\* returned; a request is handled only after the poller was started.
C7_StartupOrder ==
  /\ fpc["main"] # "idle" => dbState = "open" /\ tableExists
  /\ pollerPc # "none" => ~BeforeInitialFetchDone /\ fpc["main"] = "idle"
  /\ (resp # NoResp \/ \E r \in Readers : rpc[r] # "idle") =>
       /\ pollerPc # "none"
       /\ ~BeforeInitialFetchDone
       /\ fpc["main"] = "idle"

\* a read was answered while the poller's first fetch was under way
C7_Witness ==
  /\ resp # NoResp
  /\ fpc["poller"] = "http"
  /\ mainPc = "serving"

\* C8: with no row for the symbol in the table, a read answers 503 "no cached
\* price available" and nothing else.
C8_NoRowIs503 ==
  (resp # NoResp /\ QueryRow(gold_prices, RowKey) = {})
    => resp = [status |-> 503, error |-> NoCachedPrice]

\* a read was answered from the empty table after the initial fetch had failed
C8_Witness ==
  /\ resp.status = 503
  /\ gold_prices = {}
  /\ mainPc = "serving"

\* a handler writes its response in this step
Responds == \E r \in Readers : rpc[r] = "handling" /\ rpc'[r] = "idle"

\* C9: a read's stale flag is (now - fetchedAt) > staleThreshold for the time
\* of the read and the stored timestamp; it is false in the second the row was
\* fetched; and a read that follows another with no write between them returns
\* the same name, price and fetchedAt.
C9_StaleAtReadTime ==
  [][(Responds /\ resp'.status = 200) =>
       /\ resp'.stale
            <=> (clock - ParseRFC3339(resp'.fetchedAt)) > staleThreshold
       /\ FormatRFC3339(clock) = resp'.fetchedAt => ~resp'.stale
       /\ (resp.status = 200 /\ rinfo.current) =>
            /\ resp'.name = resp.name
            /\ resp'.price = resp.price
            /\ resp'.fetchedAt = resp.fetchedAt]_vars

\* two reads with no write between them: the first not stale, the second stale
C9_Witness ==
  /\ resp.status = 200
  /\ resp.stale
  /\ rinfo.current
  /\ rinfo.before = "fresh"

\* C10: a persisted or served price is strictly positive.
C10_PricePositive ==
  /\ \A r \in gold_prices : r.price_rial > 0
  /\ resp.status = 200 => resp.price > 0

\* C11: every answer to GET /health is 200 {"status":"ok"}, whatever the
\* store holds and whether or not a fetch is in flight, and writing it changes
\* neither the store nor the fetch cycles nor pollMu.
C11_HealthAlwaysOk ==
  [][hresp' # hresp =>
       /\ hresp' = [status |-> 200, body |-> StatusOk]
       /\ UNCHANGED << storeVars, fetchVars >>]_vars

\* /health was answered on an empty table while a fetch cycle holds pollMu
C11_Witness ==
  /\ hresp.status = 200
  /\ gold_prices = {}
  /\ fpc["poller"] = "http"
  /\ pollMu

\* C12: handling GET /api/gold/18k starts no fetch, does not touch pollMu and
\* leaves the table as it is; the table changes only in the Exec step of a
\* fetch cycle.
C12_ReadPathReadOnly ==
  [][/\ Responds => UNCHANGED << storeVars, fetchVars >>
     /\ gold_prices' # gold_prices =>
          \E c \in Callers :
            fpc[c] = "upsert" /\ fpc'[c] = "ret" /\ ferr'[c] = "nil"]_vars

\* a read found no row, and no fetch was started for it
C12_Witness ==
  /\ resp.status = 503
  /\ rinfo.current
  /\ gold_prices = {}
  /\ ~pollMu
  /\ \A c \in Callers : fpc[c] = "idle"
  /\ pollerPc = "select"

\* a cycle whose Exec has succeeded and which has not yet returned
Committed(c) == fpc[c] = "ret" /\ ferr[c] = "nil"

\* C13 as stated: the price an accepted cycle persists is the upstream price
\* times 10 (both sides in 1/PriceScale Rial).
C13_TimesTen ==
  \A c \in Callers : Committed(c) =>
    \A r \in QueryRow(gold_prices, RowKey) :
      r.price_rial * PriceScale = gold18k[c].price * TomanToRial

\* C13: the price an accepted cycle persists is the upstream price times 10
\* with the fraction of a Rial cut off toward zero, so it is exactly ten times
\* the upstream price whenever that is a whole number of Rial; a read that
\* follows with no write in between serves the persisted number.
C13_TimesTenTruncated ==
  /\ \A c \in Callers : Committed(c) =>
       \A r \in QueryRow(gold_prices, RowKey) :
         LET exact == gold18k[c].price * TomanToRial
             kept  == r.price_rial * PriceScale
         IN  /\ IF exact >= 0 THEN kept <= exact /\ exact - kept < PriceScale
                               ELSE kept >= exact /\ kept - exact < PriceScale
             /\ exact % PriceScale = 0 => kept = exact
  /\ (resp.status = 200 /\ rinfo.current) =>
       \A r \in QueryRow(gold_prices, RowKey) : resp.price = r.price_rial

\* an upstream price of 1.05 was persisted as 10 and served
C13_Witness ==
  /\ \E c \in Callers : Committed(c) /\ gold18k[c].price = 105
  /\ \E r \in gold_prices : r.price_rial = 10
  /\ resp.status = 200 /\ rinfo.current /\ resp.price = 10

\* C14: no step of a fetch cycle ends the process; when a cycle returns,
\* whatever its outcome, pollMu is free and the caller goes on (main to the
\* start of the poller, the poller back to its select); and the fetchAndCache
\* the poller calls for a tick always gets pollMu and sends the request.
C14_FailureKeepsPolling ==
  [][/\ (\E c \in Callers : fpc'[c] # fpc[c]) => running' = running
     /\ \A c \in Callers : (fpc[c] = "ret" /\ fpc'[c] = "idle") =>
          /\ ~pollMu'
          /\ c = "main" => mainPc' = "newTicker"
          /\ c = "poller" => pollerPc' = "select"
     /\ (fpc["poller"] = "call" /\ fpc'["poller"] # "call")
          => fpc'["poller"] = "http" /\ pollMu']_vars

\* the initial fetch failed, and the fetch of a tick that fired while the
\* poller was idle has passed the guard
C14_Witness ==
  /\ fpc["poller"] = "http"
  /\ tickTaken = "idle"
  /\ gold_prices = {}
  /\ running

\* C15: while the listener is open, a read of a table that holds the row
\* answers 200 with that row's name, price and fetchedAt, so that 503 means
\* that no row exists.
C15_503OnlyWithoutRow ==
  (resp # NoResp /\ rinfo.current /\ ~inShutdown) =>
    \A r \in QueryRow(gold_prices, RowKey) :
      /\ resp.status = 200
      /\ resp.name = r.name
      /\ resp.price = r.price_rial
      /\ resp.fetchedAt = r.fetched_at

\* the table holds the row for the symbol
Cached == QueryRow(gold_prices, RowKey) # {}

StopSignalled ==
  sigCh \/ sdPc \in {"tickerStop", "cancel", "shutdown", "draining", "done"}

\* C17: after a stop signal the process exits, with no assumption that a
\* fetch in flight ends or that the poller runs; and a poller waiting in its
\* select after cancel() can return at once, tick or no tick.
C17_ExitsAfterSignal ==
  /\ StopSignalled ~> ~running
  /\ [](running /\ pollerPc = "select" /\ ctxDone => ENABLED PollerCtxDone)

\* main has returned after a stop signal while the poller's request was
\* still in flight
C17_Witness ==
  /\ ~running
  /\ mainPc = "return"
  /\ sdPc # "none"
  /\ pollerPc = "fetch"
  /\ fpc["poller"] = "http"

\* C18: the name, price and fetchedAt a read returns are those of one
\* committed upsert, the last one committed before the handler's query ran (or
\* the row the run started with): never a mix of two, never an older one.
C18_NoTornRead ==
  [][(Responds /\ resp'.status = 200) =>
       \E row \in lastSuccess :
         /\ resp'.name = row.name
         /\ resp'.price = row.price_rial
         /\ resp'.fetchedAt = row.fetched_at]_vars

\* a read was answered with the values of a cycle that has committed over an
\* earlier row and has not yet returned
C18_Witness ==
  /\ resp.status = 200
  /\ rinfo.current
  /\ \E c \in Callers :
       /\ Committed(c)
       /\ gold18k[c].price = 5
       /\ resp.name = DisplayName(gold18k[c].name)
       /\ resp.price = ToRial(gold18k[c].price)
  /\ resp.name # EarlierRow.name

\* C19: the table never holds more than one row for the symbol; the row an
\* earlier run left is still there when no cycle of this run has replaced it;
\* and a read of that row answers 200 with its name, price and fetchedAt and
\* with stale computed from that fetchedAt, not 503.
C19_RowSurvivesRestart ==
  /\ Cardinality(QueryRow(gold_prices, RowKey)) <= 1
  /\ lastSuccess = {EarlierRow} => gold_prices = {EarlierRow}
  /\ (resp # NoResp /\ rinfo.current /\ gold_prices = {EarlierRow}) =>
       /\ resp.status = 200
       /\ resp.name = EarlierRow.name
       /\ resp.price = EarlierRow.price_rial
       /\ resp.fetchedAt = EarlierRow.fetched_at

====
